---- MODULE Spec2Model ----
(***************************************************************************)
(* REFRESH MATERIALIZED VIEW as implemented by                             *)
(* src/backend/commands/matview.c.                                         *)
(*                                                                         *)
(* Every backend runs transactions that either scan the materialized view  *)
(* through a cursor or execute ExecRefreshMatView on it.  One action       *)
(* models one step of the C code (one call site of ExecRefreshMatView,     *)
(* refresh_matview_datafill or one DestReceiver callback).  The catalog,   *)
(* the storage manager, the lock manager and the heap swap are the         *)
(* collaborators the file calls.                                           *)
(***************************************************************************)
EXTENDS Integers, Sequences, FiniteSets, TLC

\* ------------------------------------------------------------------ bounds
MaxRows == 2        \* rows one execution of the defining query can produce
MaxRefreshes == 2   \* REFRESH statements started in one behaviour
MaxRules == 2       \* rewrite rules (and rule actions) attached to the target

Backends == {"b1", "b2"}
RowValues == {"x", "y"}

\* ------------------------------------------------------------- constants
RELKIND_MATVIEW == "m"
RELKIND_RELATION == "r"
CMD_SELECT == "select"
CMD_INSERT == "insert"
NoLock == "NoLock"
AccessShareLock == "AccessShareLock"
AccessExclusiveLock == "AccessExclusiveLock"
HEAP_INSERT_SKIP_WAL == "HEAP_INSERT_SKIP_WAL"
HEAP_INSERT_SKIP_FSM == "HEAP_INSERT_SKIP_FSM"
HEAP_INSERT_FROZEN == "HEAP_INSERT_FROZEN"
RELPERSISTENCE_PERMANENT == "p"
RELPERSISTENCE_UNLOGGED == "u"
\* the OID and the first relfilenode of the refresh target
TargetOid == 1

VARIABLES
    pg_class,        \* catalog: oid -> relation metadata
    storage,         \* storage manager: relfilenode -> file contents
    nextOid,         \* OID / relfilenode generator
    XLogIsNeeded,    \* wal_level >= archive
    lockHeld,        \* lock manager: backend -> strongest lock on the target
    committed,       \* logical contents of the target as of the last swap
    nrefresh,        \* REFRESH statements started so far
    pc,              \* backend -> position in ExecRefreshMatView
    stmt,            \* backend -> RefreshMatViewStmt being executed
    err,             \* backend -> error raised by the current statement
    cursor,          \* backend -> open scan on the target
    matviewOid,      \* backend -> local of ExecRefreshMatView
    OIDNewHeap,      \* backend -> local of ExecRefreshMatView
    myState,         \* backend -> DR_transientrel
    InterruptPending,\* backend -> a cancel request has arrived
    ActiveSnapshot,  \* backend -> snapshot stack (curcid of each entry)
    curcid,          \* backend -> current command id of the transaction
    queryDesc,       \* backend -> rows the running plan produces / has left
    trace,           \* backend -> calls made by the current refresh, in order
    pre              \* backend -> the target as it was when the lock was taken

catVars == <<pg_class, storage, nextOid, XLogIsNeeded>>
lockVars == <<lockHeld>>
stmtVars == <<stmt, matviewOid, OIDNewHeap, myState, queryDesc>>
xactVars == <<ActiveSnapshot, curcid>>
vars == <<pg_class, storage, nextOid, XLogIsNeeded, lockHeld, committed, nrefresh,
          pc, stmt, err, cursor, matviewOid, OIDNewHeap, myState,
          InterruptPending, ActiveSnapshot, curcid, queryDesc, trace, pre>>

\* ----------------------------------------------------------------- helpers
RECURSIVE SeqsUpTo(_, _)
SeqsUpTo(S, n) ==
    IF n = 0 THEN {<<>>}
    ELSE LET shorter == SeqsUpTo(S, n - 1)
         IN  shorter \cup {Append(s, v) : s \in {t \in shorter : Len(t) = n - 1}, v \in S}

IsPrefix(s, t) == Len(s) <= Len(t) /\ SubSeq(t, 1, Len(s)) = s

Put(f, k, v) == [x \in DOMAIN f \cup {k} |-> IF x = k THEN v ELSE f[x]]
Drop(f, k) == [x \in DOMAIN f \ {k} |-> f[x]]

Ev(op, rel) == [op |-> op, rel |-> rel]
Ops(b) == [i \in 1..Len(trace[b]) |-> trace[b][i].op]
Count(b, op) == Len(SelectSeq(trace[b], LAMBDA e : e.op = op))
Has(b, op) == \E i \in 1..Len(trace[b]) : trace[b][i].op = op

\* A rewrite rule as ExecRefreshMatView reads it: event, isInstead, actions.
Rule(event, isInstead, nactions) ==
    [event |-> event, isInstead |-> isInstead, nactions |-> nactions]
SelectInsteadRule == Rule(CMD_SELECT, TRUE, 1)
RuleShapes ==
    {Rule(e, i, n) : e \in {CMD_SELECT, CMD_INSERT}, i \in BOOLEAN, n \in 0..MaxRules}
\* rd_rules: the first rule is arbitrary, further rules are ordinary ones
RuleLocks ==
    {<<>>} \cup
    {[k \in 1..n |-> IF k = 1 THEN r ELSE SelectInsteadRule] : n \in 1..MaxRules, r \in RuleShapes}

EmptyFile == [nblocks |-> 0, tuples |-> <<>>, unsynced |-> FALSE, walpages |-> 0]
Tuples(vals) == [i \in 1..Len(vals) |-> [val |-> vals[i], cmin |-> 0, frozen |-> FALSE, wal |-> TRUE]]
Vals(tuples) == [i \in 1..Len(tuples) |-> tuples[i].val]

NoCursor == [open |-> FALSE, expect |-> <<>>, pos |-> 0, got |-> <<>>, done |-> FALSE]
NoReceiver ==
    [transientoid |-> 0, transientrel |-> 0, output_cid |-> 0,
     hi_options |-> {}, bistate |-> FALSE]
NoQueryDesc == [rows |-> <<>>, left |-> <<>>]
NoPre == [relfilenode |-> 0, vals |-> <<>>, populated |-> FALSE, set |-> FALSE]

\* ------------------------------------------------- collaborators' contracts
\* relcache: a matview is populated iff its heap has at least the first page
RelIsPopulated(oid) == storage[pg_class[oid].relfilenode].nblocks > 0

\* RelationNeedsWAL(relation)
RelationNeedsWAL(oid) == pg_class[oid].relpersistence = RELPERSISTENCE_PERMANENT

\* lock manager: AccessExclusiveLock conflicts with every lock, AccessShareLock
\* only with AccessExclusiveLock; a backend never conflicts with itself
LockConflicts(m1, m2) ==
    /\ m1 # NoLock
    /\ m2 # NoLock
    /\ (m1 = AccessExclusiveLock \/ m2 = AccessExclusiveLock)
CanGrant(b, mode) == \A o \in Backends \ {b} : ~LockConflicts(mode, lockHeld[o])
Stronger(m1, m2) ==
    IF AccessExclusiveLock \in {m1, m2} THEN AccessExclusiveLock
    ELSE IF AccessShareLock \in {m1, m2} THEN AccessShareLock
    ELSE NoLock

\* heap_close(rel, lockmode): releases lockmode, NoLock keeps what is held
heap_close(held, lockmode) == IF lockmode = NoLock THEN held ELSE NoLock

TargetVals == Vals(storage[pg_class[TargetOid].relfilenode].tuples)
TargetSnapshot ==
    [relfilenode |-> pg_class[TargetOid].relfilenode,
     vals |-> TargetVals,
     populated |-> RelIsPopulated(TargetOid),
     set |-> TRUE]

InXact(b) == pc[b] # "idle" \/ cursor[b].open \/ lockHeld[b] # NoLock

\* ------------------------------------------------------------------- Init
\* The refresh target: its catalog entry and rules, and its file
\* rd_rules_isnull: rd_rules == NULL, which is how the relation cache leaves a
\* relation in which it found no rule; rd_rules is then the empty sequence
Target(kind, hasrules, rules, isnull, pers) ==
    [relkind |-> kind, relfilenode |-> TargetOid, relpersistence |-> pers,
     relhasrules |-> hasrules, rd_rules |-> rules, rd_rules_isnull |-> isnull]
\* the file of a table that holds a row
PopulatedFile ==
    [nblocks |-> 1, tuples |-> Tuples(<<"x">>), unsynced |-> FALSE, walpages |-> 1]
\* a well-formed materialized view as its creation leaves it: the heap starts
\* out not scannable, and only a refresh puts a populated heap in its place
WellFormedTargets ==
    {<<Target(RELKIND_MATVIEW, TRUE, <<SelectInsteadRule>>, FALSE, pers), EmptyFile>> :
        pers \in {RELPERSISTENCE_PERMANENT, RELPERSISTENCE_UNLOGGED}}
\* every shape of the target's kind and rule metadata: a materialized view
\* that no refresh can have populated, or a table with a row
OtherTargets ==
    {<<Target(kind, hasrules, rules, isnull, RELPERSISTENCE_PERMANENT),
       IF kind = RELKIND_MATVIEW THEN EmptyFile ELSE PopulatedFile>> :
        kind \in {RELKIND_MATVIEW, RELKIND_RELATION},
        hasrules \in BOOLEAN,
        rules \in RuleLocks,
        isnull \in BOOLEAN}

Init ==
    /\ \E t \in WellFormedTargets \cup
                {o \in OtherTargets :
                    /\ ~o[1].relhasrules => o[1].rd_rules_isnull
                    /\ o[1].rd_rules_isnull => o[1].rd_rules = <<>>} :
          /\ pg_class = [o \in {TargetOid} |-> t[1]]
          /\ storage = [f \in {TargetOid} |-> t[2]]
          /\ committed = Vals(t[2].tuples)
          \* only a refresh of a well-formed view gets as far as XLogIsNeeded
          /\ XLogIsNeeded \in (IF t \in WellFormedTargets THEN BOOLEAN ELSE {TRUE})
    /\ nextOid = TargetOid + 1
    /\ lockHeld = [b \in Backends |-> NoLock]
    /\ nrefresh = 0
    /\ pc = [b \in Backends |-> "idle"]
    /\ stmt = [b \in Backends |-> [skipData |-> FALSE]]
    /\ err = [b \in Backends |-> "none"]
    /\ cursor = [b \in Backends |-> NoCursor]
    /\ matviewOid = [b \in Backends |-> 0]
    /\ OIDNewHeap = [b \in Backends |-> 0]
    /\ myState = [b \in Backends |-> NoReceiver]
    /\ InterruptPending = [b \in Backends |-> FALSE]
    /\ ActiveSnapshot = [b \in Backends |-> <<>>]
    /\ curcid = [b \in Backends |-> 0]
    /\ queryDesc = [b \in Backends |-> NoQueryDesc]
    /\ trace = [b \in Backends |-> <<>>]
    /\ pre = [b \in Backends |-> NoPre]

\* ereport(ERROR)/elog(ERROR): the statement stops where it is
Raise(b, e) ==
    /\ pc' = [pc EXCEPT ![b] = "error"]
    /\ err' = [err EXCEPT ![b] = e]
\* a signal kills the backend process: no error is raised
Crash(b, sig) ==
    /\ pc' = [pc EXCEPT ![b] = "crashed"]
    /\ err' = [err EXCEPT ![b] = sig]
Goto(b, label) ==
    /\ pc' = [pc EXCEPT ![b] = label]
    /\ err' = err
Call(b, evs) == trace' = [trace EXCEPT ![b] = trace[b] \o evs]

\* ------------------------------------------------ transactions and cursors
\* A transaction opens a scan of the target: AccessShareLock, then the scan
\* reads whatever file the target's catalog entry names, tuple by tuple.
\* An unpopulated materialized view cannot be scanned.
OpenCursor(b) ==
    /\ pc[b] = "idle"
    /\ ~cursor[b].open
    /\ CanGrant(b, AccessShareLock)
    /\ pg_class[TargetOid].relkind = RELKIND_MATVIEW => RelIsPopulated(TargetOid)
    /\ lockHeld' = [lockHeld EXCEPT ![b] = Stronger(lockHeld[b], AccessShareLock)]
    /\ cursor' = [cursor EXCEPT ![b] =
                     [open |-> TRUE, expect |-> committed, pos |-> 0,
                      got |-> <<>>, done |-> FALSE]]
    /\ UNCHANGED <<catVars, committed, nrefresh, pc, err, stmtVars,
                   InterruptPending, xactVars, trace, pre>>

FetchRow(b) ==
    /\ pc[b] = "idle"
    /\ cursor[b].open
    /\ ~cursor[b].done
    /\ LET node == pg_class[TargetOid].relfilenode
           tuples == IF node \in DOMAIN storage THEN storage[node].tuples ELSE <<>>
           c == cursor[b]
       IN  cursor' = [cursor EXCEPT ![b] =
                         IF c.pos < Len(tuples)
                         THEN [c EXCEPT !.pos = c.pos + 1,
                                        !.got = Append(c.got, tuples[c.pos + 1].val)]
                         ELSE [c EXCEPT !.done = TRUE]]
    /\ UNCHANGED <<catVars, lockVars, committed, nrefresh, pc, err, stmtVars,
                   InterruptPending, xactVars, trace, pre>>

\* End of transaction: every lock is released, every scan closed.
EndXact(b) ==
    /\ lockHeld' = [lockHeld EXCEPT ![b] = NoLock]
    /\ cursor' = [cursor EXCEPT ![b] = NoCursor]
    /\ pc' = [pc EXCEPT ![b] = "idle"]
    /\ err' = [err EXCEPT ![b] = "none"]
    /\ stmt' = [stmt EXCEPT ![b] = [skipData |-> FALSE]]
    /\ matviewOid' = [matviewOid EXCEPT ![b] = 0]
    /\ OIDNewHeap' = [OIDNewHeap EXCEPT ![b] = 0]
    /\ myState' = [myState EXCEPT ![b] = NoReceiver]
    /\ queryDesc' = [queryDesc EXCEPT ![b] = NoQueryDesc]
    /\ InterruptPending' = [InterruptPending EXCEPT ![b] = FALSE]
    /\ ActiveSnapshot' = [ActiveSnapshot EXCEPT ![b] = <<>>]
    /\ curcid' = [curcid EXCEPT ![b] = 0]
    /\ trace' = [trace EXCEPT ![b] = <<>>]
    /\ pre' = [pre EXCEPT ![b] = NoPre]

CommitTransaction(b) ==
    /\ pc[b] = "done" \/ (pc[b] = "idle" /\ InXact(b))
    /\ EndXact(b)
    /\ UNCHANGED <<catVars, committed, nrefresh>>

\* Abort after an error: what the transaction created (the transient heap and
\* its file) is dropped; nothing else is touched.
AbortTransaction(b) ==
    /\ pc[b] = "error"
    /\ EndXact(b)
    /\ LET t == OIDNewHeap[b]
       IN  IF t \in DOMAIN pg_class
           THEN /\ pg_class' = Drop(pg_class, t)
                /\ storage' = Drop(storage, pg_class[t].relfilenode)
           ELSE UNCHANGED <<pg_class, storage>>
    /\ UNCHANGED <<nextOid, XLogIsNeeded, committed, nrefresh>>

\* A backend died: the postmaster ends every other backend and reinitialises;
\* every open transaction is gone with what it created, every lock is gone.
CrashRecovery ==
    /\ \E b \in Backends : pc[b] = "crashed"
    /\ pg_class' = [o \in {TargetOid} |-> pg_class[o]]
    /\ storage' = [f \in {pg_class[TargetOid].relfilenode} |-> storage[f]]
    /\ lockHeld' = [b \in Backends |-> NoLock]
    /\ cursor' = [b \in Backends |-> NoCursor]
    /\ pc' = [b \in Backends |-> "idle"]
    /\ err' = [b \in Backends |-> "none"]
    /\ stmt' = [b \in Backends |-> [skipData |-> FALSE]]
    /\ matviewOid' = [b \in Backends |-> 0]
    /\ OIDNewHeap' = [b \in Backends |-> 0]
    /\ myState' = [b \in Backends |-> NoReceiver]
    /\ queryDesc' = [b \in Backends |-> NoQueryDesc]
    /\ InterruptPending' = [b \in Backends |-> FALSE]
    /\ ActiveSnapshot' = [b \in Backends |-> <<>>]
    /\ curcid' = [b \in Backends |-> 0]
    /\ trace' = [b \in Backends |-> <<>>]
    /\ pre' = [b \in Backends |-> NoPre]
    /\ UNCHANGED <<nextOid, XLogIsNeeded, committed, nrefresh>>

\* A cancel request (SIGINT) reaches a backend before its refresh has passed
\* CHECK_FOR_INTERRUPTS; later requests are served by the executor.
RequestCancel(b) ==
    /\ pc[b] \in {"RangeVarGetRelidExtended", "validate", "CheckTableNotInUse",
                  "make_new_heap", "QueryRewrite", "CHECK_FOR_INTERRUPTS"}
    /\ ~InterruptPending[b]
    /\ InterruptPending' = [InterruptPending EXCEPT ![b] = TRUE]
    /\ UNCHANGED <<catVars, lockVars, committed, nrefresh, pc, err, cursor,
                   stmtVars, xactVars, trace, pre>>

\* ------------------------------------------------------ ExecRefreshMatView
\* The command arrives: REFRESH MATERIALIZED VIEW target [WITH NO DATA].
BeginRefresh(b, skipData) ==
    /\ pc[b] = "idle"
    /\ nrefresh < MaxRefreshes
    /\ nrefresh' = nrefresh + 1
    /\ stmt' = [stmt EXCEPT ![b] = [skipData |-> skipData]]
    /\ ActiveSnapshot' = [ActiveSnapshot EXCEPT ![b] = <<curcid[b]>>]
    /\ Goto(b, "RangeVarGetRelidExtended")
    /\ UNCHANGED <<catVars, lockVars, committed, cursor, matviewOid, OIDNewHeap,
                   myState, queryDesc, InterruptPending, curcid, trace, pre>>

\* mutant: the refresh takes only the lock a reader takes
RefreshLockMode_Share == AccessShareLock

\* lines 125-127: the lock mode the refresh asks for
RefreshLockMode == AccessExclusiveLock

\* lines 122-128: wait for the lock, resolve the name, open without a lock
RangeVarGetRelidExtended(b) ==
    /\ pc[b] = "RangeVarGetRelidExtended"
    /\ CanGrant(b, RefreshLockMode)
    /\ lockHeld' = [lockHeld EXCEPT ![b] = Stronger(lockHeld[b], RefreshLockMode)]
    /\ matviewOid' = [matviewOid EXCEPT ![b] = TargetOid]
    /\ pre' = [pre EXCEPT ![b] = TargetSnapshot]
    /\ Call(b, <<Ev("RangeVarGetRelidExtended", TargetOid), Ev("heap_open", TargetOid)>>)
    /\ Goto(b, "validate")
    /\ UNCHANGED <<catVars, committed, nrefresh, cursor, stmt, OIDNewHeap, myState,
                   queryDesc, InterruptPending, xactVars>>

\* The wait for the lock is given up (deadlock detected, or cancelled).
LockWaitCancelled(b) ==
    /\ pc[b] = "RangeVarGetRelidExtended"
    /\ ~CanGrant(b, RefreshLockMode)
    /\ Raise(b, "lock_not_available")
    /\ UNCHANGED <<catVars, lockVars, committed, nrefresh, cursor, stmtVars,
                   InterruptPending, xactVars, trace, pre>>

\* mutant: the kind of the relation is checked after the shape of its rules
ValidateTarget_RulesFirst(rel) ==
    IF rel.relhasrules = FALSE THEN "elog_missing_rewrite"
    ELSE IF rel.rd_rules_isnull THEN "SIGSEGV"
    ELSE IF Len(rel.rd_rules) < 1 THEN "elog_missing_rewrite"
    ELSE IF Len(rel.rd_rules) > 1 THEN "elog_too_many_rules"
    ELSE IF rel.rd_rules[1].event # CMD_SELECT \/ ~rel.rd_rules[1].isInstead
         THEN "elog_not_select_instead"
    ELSE IF rel.rd_rules[1].nactions # 1 THEN "elog_not_single_action"
    ELSE IF rel.relkind # RELKIND_MATVIEW THEN "not_matview"
    ELSE "ok"

\* lines 130-176: the checks on the opened relation, in the order of the code.
\* Line 149 reads rd_rules->numLocks whenever relhasrules is set: with
\* rd_rules == NULL that read is undefined, and the backend dies of SIGSEGV.
ValidateTarget(rel) ==
    IF rel.relkind # RELKIND_MATVIEW THEN "not_matview"
    ELSE IF rel.relhasrules = FALSE THEN "elog_missing_rewrite"
    ELSE IF rel.rd_rules_isnull THEN "SIGSEGV"
    ELSE IF Len(rel.rd_rules) < 1 THEN "elog_missing_rewrite"
    ELSE IF Len(rel.rd_rules) > 1 THEN "elog_too_many_rules"
    ELSE IF rel.rd_rules[1].event # CMD_SELECT \/ ~rel.rd_rules[1].isInstead
         THEN "elog_not_select_instead"
    ELSE IF rel.rd_rules[1].nactions # 1 THEN "elog_not_single_action"
    ELSE "ok"

\* elog(ERROR) is an internal error, ereport(ERROR) with an errcode a user error
InternalFaults ==
    {"elog_missing_rewrite", "elog_too_many_rules", "elog_not_select_instead",
     "elog_not_single_action", "elog_unexpected_rewrite"}

Validate(b) ==
    /\ pc[b] = "validate"
    /\ LET e == ValidateTarget(pg_class[matviewOid[b]])
       IN  IF e = "ok" THEN Goto(b, "CheckTableNotInUse")
           ELSE IF e = "SIGSEGV" THEN Crash(b, e)
           ELSE Raise(b, e)
    /\ Call(b, <<Ev("validate", matviewOid[b])>>)
    /\ UNCHANGED <<catVars, lockVars, committed, nrefresh, cursor, stmtVars,
                   InterruptPending, xactVars, pre>>

\* mutant: heap_close releases the lock taken at the start
CloseLockMode_Release == AccessExclusiveLock

\* line 189: the lock mode heap_close is given
CloseLockMode == NoLock

\* mutant: the active-use check is left out
CheckTableNotInUse_Skipped(b) ==
    /\ pc[b] = "CheckTableNotInUse"
    /\ Goto(b, "make_new_heap")
    /\ lockHeld' = [lockHeld EXCEPT ![b] = heap_close(lockHeld[b], CloseLockMode)]
    /\ UNCHANGED <<catVars, committed, nrefresh, cursor, stmtVars,
                   InterruptPending, xactVars, trace, pre>>

\* lines 178-189: CheckTableNotInUse, reltablespace, heap_close(NoLock)
CheckTableNotInUse(b) ==
    /\ pc[b] = "CheckTableNotInUse"
    /\ Call(b, <<Ev("CheckTableNotInUse", matviewOid[b])>>)
    /\ IF cursor[b].open
       THEN /\ Raise(b, "object_in_use")
            /\ UNCHANGED lockHeld
       ELSE /\ Goto(b, "make_new_heap")
            /\ lockHeld' = [lockHeld EXCEPT ![b] = heap_close(lockHeld[b], CloseLockMode)]
    /\ UNCHANGED <<catVars, committed, nrefresh, cursor, stmtVars,
                   InterruptPending, xactVars, pre>>

\* mutant: the receiver is created on the view instead of the new heap
make_new_heap_WrongDest(b) ==
    /\ pc[b] = "make_new_heap"
    /\ LET new == nextOid
           old == pg_class[matviewOid[b]]
       IN  /\ pg_class' = Put(pg_class, new,
                              [relkind |-> old.relkind, relfilenode |-> new,
                               relpersistence |-> old.relpersistence,
                               relhasrules |-> FALSE, rd_rules |-> <<>>,
                               rd_rules_isnull |-> TRUE])
           /\ storage' = Put(storage, new, EmptyFile)
           /\ nextOid' = new + 1
           /\ OIDNewHeap' = [OIDNewHeap EXCEPT ![b] = new]
           /\ myState' = [myState EXCEPT ![b] =
                             [NoReceiver EXCEPT !.transientoid = matviewOid[b]]]
           /\ Call(b, <<Ev("make_new_heap", new)>>)
    /\ curcid' = [curcid EXCEPT ![b] = curcid[b] + 1]
    /\ Goto(b, IF stmt[b].skipData THEN "finish_heap_swap" ELSE "QueryRewrite")
    /\ UNCHANGED <<XLogIsNeeded, lockVars, committed, nrefresh, cursor, stmt,
                   matviewOid, queryDesc, InterruptPending, ActiveSnapshot, pre>>

\* mutant: the new heap is created with its first page, already populated
make_new_heap_Populated(b) ==
    /\ pc[b] = "make_new_heap"
    /\ LET new == nextOid
           old == pg_class[matviewOid[b]]
       IN  /\ pg_class' = Put(pg_class, new,
                              [relkind |-> old.relkind, relfilenode |-> new,
                               relpersistence |-> old.relpersistence,
                               relhasrules |-> FALSE, rd_rules |-> <<>>,
                               rd_rules_isnull |-> TRUE])
           /\ storage' = Put(storage, new, [EmptyFile EXCEPT !.nblocks = 1])
           /\ nextOid' = new + 1
           /\ OIDNewHeap' = [OIDNewHeap EXCEPT ![b] = new]
           /\ myState' = [myState EXCEPT ![b] = [NoReceiver EXCEPT !.transientoid = new]]
           /\ Call(b, <<Ev("make_new_heap", new)>>)
    /\ curcid' = [curcid EXCEPT ![b] = curcid[b] + 1]
    /\ Goto(b, IF stmt[b].skipData THEN "finish_heap_swap" ELSE "QueryRewrite")
    /\ UNCHANGED <<XLogIsNeeded, lockVars, committed, nrefresh, cursor, stmt,
                   matviewOid, queryDesc, InterruptPending, ActiveSnapshot, pre>>

\* mutant: the skipData test is missing, the data fill always runs
make_new_heap_AlwaysFill(b) ==
    /\ pc[b] = "make_new_heap"
    /\ LET new == nextOid
           old == pg_class[matviewOid[b]]
       IN  /\ pg_class' = Put(pg_class, new,
                              [relkind |-> old.relkind, relfilenode |-> new,
                               relpersistence |-> old.relpersistence,
                               relhasrules |-> FALSE, rd_rules |-> <<>>,
                               rd_rules_isnull |-> TRUE])
           /\ storage' = Put(storage, new, EmptyFile)
           /\ nextOid' = new + 1
           /\ OIDNewHeap' = [OIDNewHeap EXCEPT ![b] = new]
           /\ myState' = [myState EXCEPT ![b] = [NoReceiver EXCEPT !.transientoid = new]]
           /\ Call(b, <<Ev("make_new_heap", new)>>)
    /\ curcid' = [curcid EXCEPT ![b] = curcid[b] + 1]
    /\ Goto(b, "QueryRewrite")
    /\ UNCHANGED <<XLogIsNeeded, lockVars, committed, nrefresh, cursor, stmt,
                   matviewOid, queryDesc, InterruptPending, ActiveSnapshot, pre>>

\* lines 191-196: make_new_heap, CreateTransientRelDestReceiver, the skipData test
make_new_heap(b) ==
    /\ pc[b] = "make_new_heap"
    /\ LET new == nextOid
           old == pg_class[matviewOid[b]]
       IN  /\ pg_class' = Put(pg_class, new,
                              [relkind |-> old.relkind, relfilenode |-> new,
                               relpersistence |-> old.relpersistence,
                               relhasrules |-> FALSE, rd_rules |-> <<>>,
                               rd_rules_isnull |-> TRUE])
           /\ storage' = Put(storage, new, EmptyFile)
           /\ nextOid' = new + 1
           /\ OIDNewHeap' = [OIDNewHeap EXCEPT ![b] = new]
           /\ myState' = [myState EXCEPT ![b] = [NoReceiver EXCEPT !.transientoid = new]]
           /\ Call(b, <<Ev("make_new_heap", new)>>)
    /\ curcid' = [curcid EXCEPT ![b] = curcid[b] + 1]
    /\ Goto(b, IF stmt[b].skipData THEN "finish_heap_swap" ELSE "QueryRewrite")
    /\ UNCHANGED <<XLogIsNeeded, lockVars, committed, nrefresh, cursor, stmt,
                   matviewOid, queryDesc, InterruptPending, ActiveSnapshot, pre>>

\* ------------------------------------------------ refresh_matview_datafill
RewriteCounts == 0..MaxRules
QueryResults == SeqsUpTo(RowValues, MaxRows)

\* mutant: only an empty rewrite result is rejected
QueryRewrite_AnyCount(b) ==
    /\ pc[b] = "QueryRewrite"
    /\ \E n \in RewriteCounts :
          /\ IF n = 0 THEN Raise(b, "elog_unexpected_rewrite")
             ELSE Goto(b, "CHECK_FOR_INTERRUPTS")
          /\ Call(b, <<Ev("QueryRewrite", matviewOid[b]), Ev("list_length", n)>>)
    /\ UNCHANGED <<catVars, lockVars, committed, nrefresh, cursor, stmtVars,
                   InterruptPending, xactVars, pre>>

\* lines 222-227: QueryRewrite on a copy of the stored query; the rewriter
\* returns a list whose length the code checks
QueryRewrite(b) ==
    /\ pc[b] = "QueryRewrite"
    /\ \E n \in RewriteCounts :
          /\ IF n # 1 THEN Raise(b, "elog_unexpected_rewrite")
             ELSE Goto(b, "CHECK_FOR_INTERRUPTS")
          /\ Call(b, <<Ev("QueryRewrite", matviewOid[b]), Ev("list_length", n)>>)
    /\ UNCHANGED <<catVars, lockVars, committed, nrefresh, cursor, stmtVars,
                   InterruptPending, xactVars, pre>>

\* mutant: the pending interrupt is not served
CHECK_FOR_INTERRUPTS_Ignored(b) ==
    /\ pc[b] = "CHECK_FOR_INTERRUPTS"
    /\ Call(b, <<Ev("CHECK_FOR_INTERRUPTS", matviewOid[b])>>)
    /\ Goto(b, "pg_plan_query")
    /\ UNCHANGED <<catVars, lockVars, committed, nrefresh, cursor, stmtVars,
                   InterruptPending, xactVars, pre>>

\* lines 229-230
CHECK_FOR_INTERRUPTS(b) ==
    /\ pc[b] = "CHECK_FOR_INTERRUPTS"
    /\ Call(b, <<Ev("CHECK_FOR_INTERRUPTS", matviewOid[b])>>)
    /\ IF InterruptPending[b]
       THEN /\ Raise(b, "query_canceled")
            /\ InterruptPending' = [InterruptPending EXCEPT ![b] = FALSE]
       ELSE /\ Goto(b, "pg_plan_query")
            /\ UNCHANGED InterruptPending
    /\ UNCHANGED <<catVars, lockVars, committed, nrefresh, cursor, stmtVars,
                   xactVars, pre>>

\* lines 232-253: flag the two placeholder range-table entries, plan the query;
\* the planner may raise an error
pg_plan_query(b) ==
    /\ pc[b] = "pg_plan_query"
    /\ Call(b, <<Ev("pg_plan_query", matviewOid[b])>>)
    /\ \E ok \in BOOLEAN :
          IF ok THEN Goto(b, "PushCopiedSnapshot") ELSE Raise(b, "plan_error")
    /\ UNCHANGED <<catVars, lockVars, committed, nrefresh, cursor, stmtVars,
                   InterruptPending, xactVars, pre>>

\* mutant: the copy is pushed without UpdateActiveSnapshotCommandId
PushCopiedSnapshot_NoUpdate(b) ==
    /\ pc[b] = "PushCopiedSnapshot"
    /\ ActiveSnapshot' = [ActiveSnapshot EXCEPT ![b] = Append(@, @[Len(@)])]
    /\ Call(b, <<Ev("PushCopiedSnapshot", matviewOid[b])>>)
    /\ Goto(b, "ExecutorStart")
    /\ UNCHANGED <<catVars, lockVars, committed, nrefresh, cursor, stmtVars,
                   InterruptPending, curcid, pre>>

\* lines 255-262: PushCopiedSnapshot, UpdateActiveSnapshotCommandId
PushCopiedSnapshot(b) ==
    /\ pc[b] = "PushCopiedSnapshot"
    /\ ActiveSnapshot' = [ActiveSnapshot EXCEPT ![b] = Append(@, curcid[b])]
    /\ Call(b, <<Ev("PushCopiedSnapshot", matviewOid[b])>>)
    /\ Goto(b, "ExecutorStart")
    /\ UNCHANGED <<catVars, lockVars, committed, nrefresh, cursor, stmtVars,
                   InterruptPending, curcid, pre>>

\* lines 264-270: CreateQueryDesc with dest, ExecutorStart.  The rows the plan
\* will deliver are those the defining query has under the snapshot.
ExecutorStart(b) ==
    /\ pc[b] = "ExecutorStart"
    /\ \E rows \in QueryResults :
          queryDesc' = [queryDesc EXCEPT ![b] = [rows |-> rows, left |-> rows]]
    /\ Call(b, <<Ev("ExecutorStart", matviewOid[b])>>)
    /\ Goto(b, "transientrel_startup")
    /\ UNCHANGED <<catVars, lockVars, committed, nrefresh, cursor, stmt, matviewOid,
                   OIDNewHeap, myState, InterruptPending, xactVars, pre>>

\* ----------------------------------------------------- SetMatViewToPopulated
\* lines 71-84 on the file: log_newpage when WAL is needed, smgrextend of
\* block 0, smgrimmedsync
SetMatViewToPopulatedFile(file, needsWAL) ==
    [file EXCEPT !.nblocks = 1,
                 !.walpages = IF needsWAL THEN @ + 1 ELSE @,
                 !.unsynced = FALSE]

\* lines 68-69: in a build with USE_ASSERT_CHECKING a failed Assert traps
\* and the process aborts on the spot; a build without it evaluates no Assert
SetMatViewToPopulatedTraps(populated, relkind, assertChecking) ==
    assertChecking /\ ~(relkind = RELKIND_MATVIEW /\ populated = FALSE)

\* mutant: the page is written to the file before it is logged
SetMatViewToPopulatedCalls_LogAfterWrite(oid, needsWAL, populated, relkind, assertChecking) ==
    IF SetMatViewToPopulatedTraps(populated, relkind, assertChecking)
    THEN <<Ev("AssertFailed", oid)>>
    ELSE <<Ev("smgrextend", oid)>>
         \o (IF needsWAL THEN <<Ev("log_newpage", oid)>> ELSE <<>>)
         \o <<Ev("smgrimmedsync", oid), Ev("RelationCacheInvalidateEntry", oid)>>

\* lines 68-86: the calls SetMatViewToPopulated makes, in order; none after a
\* failed Assert
SetMatViewToPopulatedCalls(oid, needsWAL, populated, relkind, assertChecking) ==
    IF SetMatViewToPopulatedTraps(populated, relkind, assertChecking)
    THEN <<Ev("AssertFailed", oid)>>
    ELSE (IF needsWAL THEN <<Ev("log_newpage", oid)>> ELSE <<>>)
         \o <<Ev("smgrextend", oid), Ev("smgrimmedsync", oid),
              Ev("RelationCacheInvalidateEntry", oid)>>

\* ------------------------------------------------------ the DestReceiver
\* lines 316-322: hi_options
InsertOptions(xlogNeeded) ==
    {HEAP_INSERT_SKIP_FSM, HEAP_INSERT_FROZEN}
        \cup (IF ~xlogNeeded THEN {HEAP_INSERT_SKIP_WAL} ELSE {})

\* mutant: the open does not call SetMatViewToPopulated
transientrel_startup_NoPopulate(b) ==
    /\ pc[b] = "transientrel_startup"
    /\ LET t == myState[b].transientoid
       IN  /\ myState' = [myState EXCEPT ![b] =
                             [transientoid |-> t, transientrel |-> t,
                              output_cid |-> curcid[b],
                              hi_options |-> InsertOptions(XLogIsNeeded),
                              bistate |-> TRUE]]
           /\ Call(b, <<Ev("transientrel_startup", t)>>)
    /\ Goto(b, "transientrel_receive")
    /\ UNCHANGED <<catVars, lockVars, committed, nrefresh,
                   cursor, stmt, matviewOid, OIDNewHeap, queryDesc,
                   InterruptPending, xactVars, pre>>

\* lines 302-329: transientrel_startup, called by ExecutorRun before any row
\* (either build: the two differ only where an Assert of lines 68-69 fails)
transientrel_startup(b) ==
    /\ pc[b] = "transientrel_startup"
    /\ LET t == myState[b].transientoid
           node == pg_class[t].relfilenode
       IN  /\ myState' = [myState EXCEPT ![b] =
                             [transientoid |-> t, transientrel |-> t,
                              output_cid |-> curcid[b],
                              hi_options |-> InsertOptions(XLogIsNeeded),
                              bistate |-> TRUE]]
           /\ \E assertChecking \in BOOLEAN :
                 /\ Call(b, <<Ev("transientrel_startup", t)>>
                            \o SetMatViewToPopulatedCalls(t, RelationNeedsWAL(t),
                                                          RelIsPopulated(t),
                                                          pg_class[t].relkind,
                                                          assertChecking))
                 /\ IF SetMatViewToPopulatedTraps(RelIsPopulated(t), pg_class[t].relkind,
                                                  assertChecking)
                    THEN /\ UNCHANGED storage
                         /\ Crash(b, "TRAP_FailedAssertion")
                    ELSE /\ storage' = [storage EXCEPT ![node] =
                                SetMatViewToPopulatedFile(@, RelationNeedsWAL(t))]
                         /\ Goto(b, "transientrel_receive")
    /\ UNCHANGED <<pg_class, nextOid, XLogIsNeeded, lockVars, committed, nrefresh,
                   cursor, stmt, matviewOid, OIDNewHeap, queryDesc,
                   InterruptPending, xactVars, pre>>

\* heap_insert(relation, tuple, cid, options, bistate): the row is logged when
\* the options do not skip WAL and the relation needs WAL (an unlogged
\* relation never does); pages written under HEAP_INSERT_SKIP_WAL await the
\* caller's heap_sync
heap_insert(file, needsWAL, val, cid, options) ==
    [file EXCEPT
        !.tuples = Append(@, [val |-> val, cmin |-> cid,
                              frozen |-> HEAP_INSERT_FROZEN \in options,
                              wal |-> HEAP_INSERT_SKIP_WAL \notin options /\ needsWAL]),
        !.unsynced = @ \/ HEAP_INSERT_SKIP_WAL \in options]

\* mutant: the row is inserted into the view's own file
transientrel_receive_IntoView(b) ==
    /\ pc[b] = "transientrel_receive"
    /\ queryDesc[b].left # <<>>
    /\ LET t == matviewOid[b]
           node == pg_class[t].relfilenode
       IN  /\ storage' = [storage EXCEPT ![node] =
                             heap_insert(@, RelationNeedsWAL(t), Head(queryDesc[b].left),
                                         myState[b].output_cid, myState[b].hi_options)]
           /\ Call(b, <<Ev("transientrel_receive", t)>>)
    /\ queryDesc' = [queryDesc EXCEPT ![b].left = Tail(@)]
    /\ Goto(b, "transientrel_receive")
    /\ UNCHANGED <<pg_class, nextOid, XLogIsNeeded, lockVars, committed, nrefresh,
                   cursor, stmt, matviewOid, OIDNewHeap, myState,
                   InterruptPending, xactVars, pre>>

\* mutant: a row is taken from the plan but not inserted
transientrel_receive_Lost(b) ==
    /\ pc[b] = "transientrel_receive"
    /\ queryDesc[b].left # <<>>
    /\ Call(b, <<Ev("transientrel_receive", myState[b].transientrel)>>)
    /\ queryDesc' = [queryDesc EXCEPT ![b].left = Tail(@)]
    /\ Goto(b, "transientrel_receive")
    /\ UNCHANGED <<catVars, lockVars, committed, nrefresh,
                   cursor, stmt, matviewOid, OIDNewHeap, myState,
                   InterruptPending, xactVars, pre>>

\* lines 334-353: transientrel_receive, once per row the plan delivers
transientrel_receive(b) ==
    /\ pc[b] = "transientrel_receive"
    /\ queryDesc[b].left # <<>>
    /\ LET t == myState[b].transientrel
           node == pg_class[t].relfilenode
       IN  /\ storage' = [storage EXCEPT ![node] =
                             heap_insert(@, RelationNeedsWAL(t), Head(queryDesc[b].left),
                                         myState[b].output_cid, myState[b].hi_options)]
           /\ Call(b, <<Ev("transientrel_receive", t)>>)
    /\ queryDesc' = [queryDesc EXCEPT ![b].left = Tail(@)]
    /\ Goto(b, "transientrel_receive")
    /\ UNCHANGED <<pg_class, nextOid, XLogIsNeeded, lockVars, committed, nrefresh,
                   cursor, stmt, matviewOid, OIDNewHeap, myState,
                   InterruptPending, xactVars, pre>>

\* The executor raises an error while running the plan (a function of the
\* defining query fails, or a cancel request is served).
ExecutorRunError(b) ==
    /\ pc[b] = "transientrel_receive"
    /\ Raise(b, "exec_error")
    /\ UNCHANGED <<catVars, lockVars, committed, nrefresh, cursor, stmtVars,
                   InterruptPending, xactVars, trace, pre>>

\* mutant: the close asks XLogIsNeeded again instead of the stored options
transientrel_shutdown_Recheck(b) ==
    /\ pc[b] = "transientrel_receive"
    /\ queryDesc[b].left = <<>>
    /\ LET t == myState[b].transientrel
           node == pg_class[t].relfilenode
       IN  IF ~XLogIsNeeded
           THEN /\ Call(b, <<Ev("transientrel_shutdown", t), Ev("heap_sync", t)>>)
                /\ \E ok \in BOOLEAN :
                      IF ok
                      THEN /\ storage' = [storage EXCEPT ![node].unsynced = FALSE]
                           /\ myState' = [myState EXCEPT ![b].bistate = FALSE,
                                                         ![b].transientrel = 0]
                           /\ Goto(b, "PopActiveSnapshot")
                      ELSE /\ Raise(b, "sync_error")
                           /\ myState' = [myState EXCEPT ![b].bistate = FALSE]
                           /\ UNCHANGED storage
           ELSE /\ Call(b, <<Ev("transientrel_shutdown", t)>>)
                /\ myState' = [myState EXCEPT ![b].bistate = FALSE,
                                              ![b].transientrel = 0]
                /\ Goto(b, "PopActiveSnapshot")
                /\ UNCHANGED storage
    /\ UNCHANGED <<pg_class, nextOid, XLogIsNeeded, lockVars, committed, nrefresh,
                   cursor, stmt, matviewOid, OIDNewHeap, queryDesc,
                   InterruptPending, xactVars, pre>>

\* mutant: the close never calls heap_sync
transientrel_shutdown_NoSync(b) ==
    /\ pc[b] = "transientrel_receive"
    /\ queryDesc[b].left = <<>>
    /\ Call(b, <<Ev("transientrel_shutdown", myState[b].transientrel)>>)
    /\ myState' = [myState EXCEPT ![b].bistate = FALSE, ![b].transientrel = 0]
    /\ Goto(b, "PopActiveSnapshot")
    /\ UNCHANGED <<catVars, lockVars, committed, nrefresh,
                   cursor, stmt, matviewOid, OIDNewHeap, queryDesc,
                   InterruptPending, xactVars, pre>>

\* lines 358-372: transientrel_shutdown, called when the plan is exhausted;
\* heap_sync raises an error when the file cannot be flushed
transientrel_shutdown(b) ==
    /\ pc[b] = "transientrel_receive"
    /\ queryDesc[b].left = <<>>
    /\ LET t == myState[b].transientrel
           node == pg_class[t].relfilenode
       IN  IF HEAP_INSERT_SKIP_WAL \in myState[b].hi_options
           THEN /\ Call(b, <<Ev("transientrel_shutdown", t), Ev("heap_sync", t)>>)
                /\ \E ok \in BOOLEAN :
                      IF ok
                      THEN /\ storage' = [storage EXCEPT ![node].unsynced = FALSE]
                           /\ myState' = [myState EXCEPT ![b].bistate = FALSE,
                                                         ![b].transientrel = 0]
                           /\ Goto(b, "PopActiveSnapshot")
                      ELSE /\ Raise(b, "sync_error")
                           /\ myState' = [myState EXCEPT ![b].bistate = FALSE]
                           /\ UNCHANGED storage
           ELSE /\ Call(b, <<Ev("transientrel_shutdown", t)>>)
                /\ myState' = [myState EXCEPT ![b].bistate = FALSE,
                                              ![b].transientrel = 0]
                /\ Goto(b, "PopActiveSnapshot")
                /\ UNCHANGED storage
    /\ UNCHANGED <<pg_class, nextOid, XLogIsNeeded, lockVars, committed, nrefresh,
                   cursor, stmt, matviewOid, OIDNewHeap, queryDesc,
                   InterruptPending, xactVars, pre>>

\* lines 275-281: ExecutorFinish, ExecutorEnd, FreeQueryDesc, PopActiveSnapshot
PopActiveSnapshot(b) ==
    /\ pc[b] = "PopActiveSnapshot"
    /\ ActiveSnapshot' = [ActiveSnapshot EXCEPT ![b] = SubSeq(@, 1, Len(@) - 1)]
    /\ Call(b, <<Ev("PopActiveSnapshot", matviewOid[b])>>)
    /\ Goto(b, "finish_heap_swap")
    /\ UNCHANGED <<catVars, lockVars, committed, nrefresh, cursor, stmtVars,
                   InterruptPending, curcid, pre>>

\* --------------------------------------------------- swap and invalidation
\* finish_heap_swap: the two catalog entries exchange their relfilenodes, then
\* the transient relation is dropped together with the file it now names
SwapRelationFiles(cat, r1, r2) ==
    [cat EXCEPT ![r1].relfilenode = cat[r2].relfilenode,
                ![r2].relfilenode = cat[r1].relfilenode]

\* mutant: the transient heap is passed for both relations of the swap
finish_heap_swap_SameRel(b) ==
    /\ pc[b] = "finish_heap_swap"
    /\ LET swapped == SwapRelationFiles(pg_class, OIDNewHeap[b], OIDNewHeap[b])
       IN  /\ pg_class' = Drop(swapped, OIDNewHeap[b])
           /\ storage' = Drop(storage, swapped[OIDNewHeap[b]].relfilenode)
           /\ committed' = Vals(storage[swapped[matviewOid[b]].relfilenode].tuples)
    /\ curcid' = [curcid EXCEPT ![b] = curcid[b] + 1]
    /\ Call(b, <<Ev("finish_heap_swap", matviewOid[b])>>)
    /\ Goto(b, "RelationCacheInvalidateEntry")
    /\ UNCHANGED <<nextOid, XLogIsNeeded, lockVars, nrefresh, cursor, stmtVars,
                   InterruptPending, ActiveSnapshot, pre>>

\* lines 198-203
finish_heap_swap(b) ==
    /\ pc[b] = "finish_heap_swap"
    /\ LET swapped == SwapRelationFiles(pg_class, matviewOid[b], OIDNewHeap[b])
       IN  /\ pg_class' = Drop(swapped, OIDNewHeap[b])
           /\ storage' = Drop(storage, swapped[OIDNewHeap[b]].relfilenode)
           /\ committed' = Vals(storage[swapped[matviewOid[b]].relfilenode].tuples)
    /\ curcid' = [curcid EXCEPT ![b] = curcid[b] + 1]
    /\ Call(b, <<Ev("finish_heap_swap", matviewOid[b])>>)
    /\ Goto(b, "RelationCacheInvalidateEntry")
    /\ UNCHANGED <<nextOid, XLogIsNeeded, lockVars, nrefresh, cursor, stmtVars,
                   InterruptPending, ActiveSnapshot, pre>>

\* mutant: the transient heap's OID is invalidated instead of the view's
RelationCacheInvalidateEntry_NewHeap(b) ==
    /\ pc[b] = "RelationCacheInvalidateEntry"
    /\ Call(b, <<Ev("RelationCacheInvalidateEntry", OIDNewHeap[b])>>)
    /\ Goto(b, "done")
    /\ UNCHANGED <<catVars, lockVars, committed, nrefresh, cursor, stmtVars,
                   InterruptPending, xactVars, pre>>

\* line 205
RelationCacheInvalidateEntry(b) ==
    /\ pc[b] = "RelationCacheInvalidateEntry"
    /\ Call(b, <<Ev("RelationCacheInvalidateEntry", matviewOid[b])>>)
    /\ Goto(b, "done")
    /\ UNCHANGED <<catVars, lockVars, committed, nrefresh, cursor, stmtVars,
                   InterruptPending, xactVars, pre>>

\* ------------------------------------------------------------------- Next
Next ==
    \/ CrashRecovery
    \/ \E b \in Backends :
        \/ OpenCursor(b)
        \/ FetchRow(b)
        \/ CommitTransaction(b)
        \/ AbortTransaction(b)
        \/ RequestCancel(b)
        \/ \E skipData \in BOOLEAN : BeginRefresh(b, skipData)
        \/ RangeVarGetRelidExtended(b)
        \/ LockWaitCancelled(b)
        \/ Validate(b)
        \/ CheckTableNotInUse(b)
        \/ make_new_heap(b)
        \/ QueryRewrite(b)
        \/ CHECK_FOR_INTERRUPTS(b)
        \/ pg_plan_query(b)
        \/ PushCopiedSnapshot(b)
        \/ ExecutorStart(b)
        \/ transientrel_startup(b)
        \/ transientrel_receive(b)
        \/ ExecutorRunError(b)
        \/ transientrel_shutdown(b)
        \/ PopActiveSnapshot(b)
        \/ finish_heap_swap(b)
        \/ RelationCacheInvalidateEntry(b)

Spec == Init /\ [][Next]_vars

\* ------------------------------------------- a changing logging requirement
\* The answer of XLogIsNeeded changes while some sink is open. wal_level is
\* fixed at server start, so no run of the server takes this step; the
\* specification below adds it to ask what the sink does with its stored
\* options if the answer did change between open and close.
SetWalLevel ==
    /\ \E b \in Backends : myState[b].bistate
    /\ XLogIsNeeded' = ~XLogIsNeeded
    /\ UNCHANGED <<pg_class, storage, nextOid, lockVars, committed, nrefresh,
                   pc, stmt, err, cursor, matviewOid, OIDNewHeap, myState,
                   InterruptPending, xactVars, queryDesc, trace, pre>>

NextWal == Next \/ SetWalLevel

SpecWal == Init /\ [][NextWal]_vars

\* ===================================================================== claims
AfterSwap(b) == pc[b] \in {"RelationCacheInvalidateEntry", "done"}
Before(b, op1, op2) ==
    \A j \in 1..Len(trace[b]) :
        trace[b][j].op = op2 =>
            \A i \in j..Len(trace[b]) : trace[b][i].op # op1

\* C1: every scan of the view returns exactly the contents the view had when
\* the scan began (the complete contents left by the last swap before it):
\* the rows read so far are always a prefix of those contents and a finished
\* scan has read all of them, whatever a concurrent refresh is doing.
C1_ReadersSeeOneVersion ==
    \A b \in Backends :
        cursor[b].open =>
            /\ IsPrefix(cursor[b].got, cursor[b].expect)
            /\ cursor[b].done => cursor[b].got = cursor[b].expect

\* a reader has read the whole result of an earlier refresh while another
\* backend's refresh waits for the lock
C1_Witness ==
    \E r, w \in Backends :
        /\ cursor[r].open /\ cursor[r].done
        /\ pg_class[TargetOid].relfilenode # TargetOid
        /\ cursor[r].got = <<"y", "x">>
        /\ pc[w] = "RangeVarGetRelidExtended"

\* C2: from the moment the refresh holds its lock until it reaches the swap
\* step, and in particular when it has failed, the view has the storage
\* identity, contents and populated flag it had when the refresh started, no
\* swap was requested and the transient file is not the view's file.
C2_NoPartialSuccess ==
    \A b \in Backends :
        (pre[b].set /\ ~AfterSwap(b)) =>
            /\ TargetSnapshot = pre[b]
            /\ ~Has(b, "finish_heap_swap")
            /\ OIDNewHeap[b] \in DOMAIN pg_class =>
                   pg_class[OIDNewHeap[b]].relfilenode # pg_class[TargetOid].relfilenode

\* the close-time flush failed after rows were written to the transient file
C2_Witness ==
    \E b \in Backends :
        /\ pc[b] = "error" /\ err[b] = "sync_error"
        /\ Len(storage[pg_class[OIDNewHeap[b]].relfilenode].tuples) > 0
        /\ pre[b].populated

\* C3: the view keeps its OID through every refresh, a refresh that has
\* swapped leaves the view on a relfilenode different from the one it had
\* before, and the transient heap's OID is never the view's OID.
C3_IdentityPreserved ==
    /\ TargetOid \in DOMAIN pg_class
    /\ \A b \in Backends :
          /\ matviewOid[b] \in {0, TargetOid}
          /\ OIDNewHeap[b] # 0 => OIDNewHeap[b] # matviewOid[b]
          /\ AfterSwap(b) =>
                 /\ pg_class[TargetOid].relfilenode # pre[b].relfilenode
                 /\ pg_class[TargetOid].relfilenode = OIDNewHeap[b]

\* a second successful refresh has completed
C3_Witness ==
    \E b \in Backends :
        /\ pc[b] = "done"
        /\ pre[b].relfilenode # TargetOid

\* C4: after the swap of a refresh with skipData = false the view is
\* populated and its file holds exactly the rows the one execution of the
\* defining query produced, in order, each once, all frozen.
C4_DataRefreshResult ==
    \A b \in Backends :
        (AfterSwap(b) /\ ~stmt[b].skipData) =>
            /\ RelIsPopulated(TargetOid)
            /\ TargetVals = queryDesc[b].rows
            /\ \A i \in 1..Len(storage[pg_class[TargetOid].relfilenode].tuples) :
                   storage[pg_class[TargetOid].relfilenode].tuples[i].frozen

\* an unpopulated view was refreshed with two different rows
C4_Witness ==
    \E b \in Backends :
        /\ pc[b] = "done" /\ ~stmt[b].skipData
        /\ ~pre[b].populated
        /\ TargetVals = <<"x", "y">>

\* C5 as stated: a no-data refresh leaves the view empty and populated, the
\* transient heap of every refresh being populated before the swap.
C5_NoDataLeavesPopulated ==
    \A b \in Backends :
        /\ pc[b] = "finish_heap_swap" => RelIsPopulated(OIDNewHeap[b])
        /\ (AfterSwap(b) /\ stmt[b].skipData) =>
               (TargetVals = <<>> /\ RelIsPopulated(TargetOid))

\* C5 amended: a no-data refresh leaves the view empty and unpopulated, every
\* time; the transient heap that is swapped in has its first page exactly when
\* the refresh filled data.
C5_NoDataLeavesUnpopulated ==
    \A b \in Backends :
        /\ pc[b] = "finish_heap_swap" =>
               (RelIsPopulated(OIDNewHeap[b]) <=> ~stmt[b].skipData)
        /\ (AfterSwap(b) /\ stmt[b].skipData) =>
               (TargetVals = <<>> /\ ~RelIsPopulated(TargetOid))

\* a no-data refresh has completed on the view a no-data refresh had left
C5_Witness ==
    \E b \in Backends :
        /\ pc[b] = "done" /\ stmt[b].skipData
        /\ pre[b].relfilenode # TargetOid
        /\ ~pre[b].populated

C7_ActiveUseGuard ==
    \A b \in Backends :
        /\ cursor[b].open =>
               pc[b] \in {"idle", "RangeVarGetRelidExtended", "validate",
                          "CheckTableNotInUse", "error", "crashed"}
        /\ (cursor[b].open /\ Has(b, "CheckTableNotInUse")) =>
               (pc[b] = "error" /\ err[b] = "object_in_use")
        /\ err[b] = "object_in_use" =>
               /\ pc[b] = "error"
               /\ OIDNewHeap[b] = 0
               /\ DOMAIN pg_class = {TargetOid}
               /\ DOMAIN storage = {pre[b].relfilenode}
               /\ \A i \in 1..Len(trace[b]) :
                      trace[b][i].op \in {"RangeVarGetRelidExtended", "heap_open",
                                         "validate", "CheckTableNotInUse"}

\* a refresh failed on the scan its own transaction holds open
C7_Witness ==
    \E b \in Backends :
        /\ err[b] = "object_in_use"
        /\ cursor[b].open /\ cursor[b].got # <<>>

\* the shapes of rule metadata C8 names
BadRuleShape(rel) ==
    \/ Len(rel.rd_rules) # 1
    \/ rel.rd_rules[1].event # CMD_SELECT
    \/ ~rel.rd_rules[1].isInstead
    \/ rel.rd_rules[1].nactions # 1

\* C8 as stated: on a materialized view with zero rules, several rules, a rule
\* that is not SELECT INSTEAD or a rule without exactly one action, the
\* refresh has failed with an internal error as soon as validation is over,
\* having done nothing but lock, open and validate. It does not hold: a view
\* with relhasrules set and rd_rules == NULL kills the backend at line 149.
C8_RuleShapeFault ==
    \A b \in Backends :
        (/\ Has(b, "validate")
         /\ pg_class[TargetOid].relkind = RELKIND_MATVIEW
         /\ BadRuleShape(pg_class[TargetOid])) =>
            /\ pc[b] = "error"
            /\ err[b] \in InternalFaults
            /\ Ops(b) = <<"RangeVarGetRelidExtended", "heap_open", "validate">>
            /\ OIDNewHeap[b] = 0
            /\ DOMAIN pg_class = {TargetOid}

\* a view without rules, relhasrules set, took the backend down in validation
C8_Witness ==
    \E b \in Backends :
        /\ pc[b] = "crashed" /\ err[b] = "SIGSEGV"
        /\ Has(b, "validate")
        /\ pg_class[TargetOid].relkind = RELKIND_MATVIEW
        /\ pg_class[TargetOid].relhasrules
        /\ pg_class[TargetOid].rd_rules_isnull

\* C9: when the sink skipped WAL, heap_sync on the transient heap is called
\* exactly once, in transientrel_shutdown, after every row and before the
\* swap, and a failure of it stops the refresh before the swap; when the sink
\* did not skip WAL, heap_sync is never called.
C9_CloseTimeFlush ==
    \A b \in Backends :
        LET skipWal == HEAP_INSERT_SKIP_WAL \in myState[b].hi_options
            closed == Has(b, "transientrel_shutdown")
        IN  /\ Count(b, "heap_sync") = (IF skipWal /\ closed THEN 1 ELSE 0)
            /\ Count(b, "transientrel_shutdown") <= 1
            /\ Before(b, "transientrel_receive", "heap_sync")
            /\ Before(b, "transientrel_shutdown", "heap_sync")
            /\ Before(b, "heap_sync", "PopActiveSnapshot")
            /\ Before(b, "heap_sync", "finish_heap_swap")
            /\ \A i \in 1..Len(trace[b]) :
                   trace[b][i].op = "heap_sync" => trace[b][i].rel = OIDNewHeap[b]
            /\ pc[b] \in {"PopActiveSnapshot", "finish_heap_swap"} =>
                   ~storage[pg_class[OIDNewHeap[b]].relfilenode].unsynced
            /\ err[b] = "sync_error" =>
                   (pc[b] = "error" /\ ~Has(b, "finish_heap_swap")
                    /\ TargetSnapshot = pre[b])

\* a refresh that skipped WAL inserted rows, flushed them and completed
C9_Witness ==
    \E b \in Backends :
        /\ pc[b] = "done"
        /\ HEAP_INSERT_SKIP_WAL \in myState[b].hi_options
        /\ Count(b, "transientrel_receive") > 1
        /\ Count(b, "heap_sync") = 1

\* C10: the lock is the first thing a refresh does, it is AccessExclusiveLock
\* and it is held at every later step of the refresh; two backends are never
\* both past the lock, and during the swap no other backend holds any lock on
\* the view.
C10_LockDiscipline ==
    /\ \A b \in Backends :
          /\ trace[b] # <<>> => trace[b][1].op = "RangeVarGetRelidExtended"
          /\ pre[b].set => lockHeld[b] = AccessExclusiveLock
          /\ pc[b] \notin {"idle", "RangeVarGetRelidExtended", "error"} => pre[b].set
          /\ pc[b] = "finish_heap_swap" =>
                 \A o \in Backends \ {b} : lockHeld[o] = NoLock
    /\ \A b1, b2 \in Backends : (pre[b1].set /\ pre[b2].set) => b1 = b2

\* one refresh is at the swap while another waits for the lock
C10_Witness ==
    \E b1, b2 \in Backends :
        /\ pc[b1] = "finish_heap_swap"
        /\ pc[b2] = "RangeVarGetRelidExtended"

\* the data fill of the refresh is over
FillOver(b) ==
    /\ ~stmt[b].skipData
    /\ pc[b] \in {"PopActiveSnapshot", "finish_heap_swap",
                  "RelationCacheInvalidateEntry", "done"}

\* C11: the sink is opened at most once, rows are received only after the
\* open and before the close, the close happens at most once, and a data fill
\* that is over has seen exactly one open and one close; each open applies
\* SetMatViewToPopulated exactly once, to the transient heap, with its
\* assertions holding, and before the first row is inserted.
C11_SinkProtocol ==
    \A b \in Backends :
        /\ Count(b, "transientrel_startup") <= 1
        /\ Count(b, "transientrel_shutdown") <= 1
        /\ Has(b, "transientrel_receive") => Has(b, "transientrel_startup")
        /\ Has(b, "transientrel_shutdown") => Has(b, "transientrel_startup")
        /\ Before(b, "transientrel_startup", "transientrel_receive")
        /\ Before(b, "transientrel_receive", "transientrel_shutdown")
        /\ FillOver(b) =>
               /\ Count(b, "transientrel_startup") = 1
               /\ Count(b, "transientrel_shutdown") = 1
               /\ Count(b, "transientrel_receive") = Len(queryDesc[b].rows)
        /\ ~Has(b, "AssertFailed")
        /\ Count(b, "smgrextend") = Count(b, "transientrel_startup")
        /\ Before(b, "transientrel_startup", "smgrextend")
        /\ Before(b, "smgrextend", "transientrel_receive")
        /\ Before(b, "smgrimmedsync", "transientrel_receive")
        /\ \A i \in 1..Len(trace[b]) :
               trace[b][i].op = "smgrextend" =>
                   (trace[b][i].rel = OIDNewHeap[b] /\ trace[b][i].rel # TargetOid)

\* a data fill of two rows went through open, two receives and close
C11_Witness ==
    \E b \in Backends :
        /\ pc[b] = "done" /\ ~stmt[b].skipData
        /\ Count(b, "transientrel_receive") = 2
        /\ Count(b, "smgrextend") = 1

\* the transient heap is as persistent as the view it was made for
TransientNeedsWAL == pg_class[TargetOid].relpersistence = RELPERSISTENCE_PERMANENT

\* C12: every SetMatViewToPopulated logs the new page exactly when the heap
\* needs WAL, and then, in this order and with nothing in between, writes the
\* page to the file, flushes the file and invalidates the heap's cache entry;
\* the flush is there in every call, with and without WAL and whether or not
\* the sink will flush at close, and it leaves a one-page, empty, flushed file.
C12_PopulateOrder ==
    \A b \in Backends :
        /\ \A i \in 1..Len(trace[b]) :
               /\ trace[b][i].op = "smgrextend" =>
                      /\ i + 2 <= Len(trace[b])
                      /\ trace[b][i + 1] = Ev("smgrimmedsync", trace[b][i].rel)
                      /\ trace[b][i + 2] = Ev("RelationCacheInvalidateEntry", trace[b][i].rel)
                      /\ TransientNeedsWAL <=>
                             (i > 1 /\ trace[b][i - 1] = Ev("log_newpage", trace[b][i].rel))
               /\ trace[b][i].op = "log_newpage" =>
                      (i < Len(trace[b]) /\ trace[b][i + 1].op = "smgrextend")
        /\ Count(b, "smgrimmedsync") = Count(b, "transientrel_startup")
        /\ Count(b, "log_newpage") =
               (IF TransientNeedsWAL THEN Count(b, "transientrel_startup") ELSE 0)
        /\ (pc[b] = "transientrel_receive" /\ ~Has(b, "transientrel_receive")) =>
               storage[pg_class[OIDNewHeap[b]].relfilenode] =
                   [nblocks |-> 1, tuples |-> <<>>, unsynced |-> FALSE,
                    walpages |-> IF TransientNeedsWAL THEN 1 ELSE 0]

\* the page was logged and flushed in a refresh whose sink skipped WAL and
\* flushed again at close
C12_Witness ==
    \E b \in Backends :
        /\ pc[b] = "done"
        /\ Has(b, "log_newpage")
        /\ Count(b, "smgrimmedsync") = 1
        /\ HEAP_INSERT_SKIP_WAL \in myState[b].hi_options
        /\ Count(b, "heap_sync") = 1

\* the pop and what the snapshot stack holds, common to both readings of C13
SnapshotScope(b) ==
    /\ Has(b, "ExecutorStart") => Has(b, "PushCopiedSnapshot")
    /\ Before(b, "PushCopiedSnapshot", "ExecutorStart")
    /\ Count(b, "PushCopiedSnapshot") <= 1
    /\ Has(b, "PopActiveSnapshot") =>
           /\ Has(b, "transientrel_shutdown")
           /\ Count(b, "PopActiveSnapshot") = Count(b, "PushCopiedSnapshot")
    /\ Before(b, "transientrel_shutdown", "PopActiveSnapshot")
    /\ pc[b] \in {"ExecutorStart", "transientrel_startup", "transientrel_receive",
                  "PopActiveSnapshot"} =>
           /\ Len(ActiveSnapshot[b]) = 2
           /\ ActiveSnapshot[b][2] = curcid[b]
    /\ pc[b] \in {"finish_heap_swap", "RelationCacheInvalidateEntry", "done"} =>
           Len(ActiveSnapshot[b]) = 1

\* C13 as stated: the snapshot is pushed before the defining query is planned
\* and before it is executed, and popped after the execution.
C13_PushBeforePlan ==
    \A b \in Backends :
        /\ Has(b, "pg_plan_query") => Has(b, "PushCopiedSnapshot")
        /\ Before(b, "PushCopiedSnapshot", "pg_plan_query")
        /\ SnapshotScope(b)

\* C13 amended: the defining query is planned first; the copied snapshot with
\* the advanced command id is pushed after the planning and before the
\* execution, and popped once the execution has ended.
C13_PushAfterPlan ==
    \A b \in Backends :
        /\ Has(b, "PushCopiedSnapshot") => Has(b, "pg_plan_query")
        /\ Before(b, "pg_plan_query", "PushCopiedSnapshot")
        /\ SnapshotScope(b)

\* rows are being received under the pushed snapshot, the plan made before it
C13_Witness ==
    \E b \in Backends :
        /\ pc[b] = "transientrel_receive"
        /\ Has(b, "transientrel_receive")
        /\ Len(ActiveSnapshot[b]) = 2
        /\ ActiveSnapshot[b][2] # ActiveSnapshot[b][1]

\* C14: a refresh that plans or executes the defining query has called
\* CHECK_FOR_INTERRUPTS before; a refresh leaves that check with an interrupt
\* pending only by failing with the cancel error, and then the query was not
\* planned or executed, the sink not opened, no row written and no swap made.
C14_InterruptObserved ==
    /\ [](\A b \in Backends :
             /\ (Has(b, "pg_plan_query") \/ Has(b, "ExecutorStart")) =>
                    Has(b, "CHECK_FOR_INTERRUPTS")
             /\ Before(b, "CHECK_FOR_INTERRUPTS", "pg_plan_query")
             /\ Before(b, "CHECK_FOR_INTERRUPTS", "ExecutorStart")
             /\ Before(b, "CHECK_FOR_INTERRUPTS", "transientrel_startup")
             /\ err[b] = "query_canceled" =>
                    /\ pc[b] = "error"
                    /\ trace[b][Len(trace[b])].op = "CHECK_FOR_INTERRUPTS"
                    /\ \A op \in {"pg_plan_query", "PushCopiedSnapshot", "ExecutorStart",
                                  "transientrel_startup", "transientrel_receive",
                                  "finish_heap_swap"} : ~Has(b, op)
                    /\ myState[b].transientrel = 0
                    /\ storage[pg_class[OIDNewHeap[b]].relfilenode] = EmptyFile
                    /\ TargetSnapshot = pre[b])
    /\ [][\A b \in Backends :
             (/\ pc[b] = "CHECK_FOR_INTERRUPTS"
              /\ InterruptPending[b]
              /\ pc'[b] # pc[b]) =>
                 (pc'[b] = "error" /\ err'[b] = "query_canceled")]_vars

\* a cancel request stopped a refresh of a populated view at the check
C14_Witness ==
    \E b \in Backends :
        /\ err[b] = "query_canceled"
        /\ pre[b].populated
        /\ OIDNewHeap[b] \in DOMAIN pg_class

\* C15: a refresh with skipData = true makes no call but lock, open, validate,
\* active-use check, make_new_heap, swap and invalidation, in this order: it
\* is at the swap right after make_new_heap, the query is not rewritten,
\* planned or executed, no snapshot is pushed and the sink is never opened,
\* fed or closed; once it is done the swap and the invalidation have happened
\* and the view is empty.
C15_NoDataPath ==
    \A b \in Backends :
        stmt[b].skipData =>
            /\ \A i \in 1..Len(trace[b]) :
                   trace[b][i].op \in
                       {"RangeVarGetRelidExtended", "heap_open", "validate",
                        "CheckTableNotInUse", "make_new_heap", "finish_heap_swap",
                        "RelationCacheInvalidateEntry"}
            /\ Len(ActiveSnapshot[b]) <= 1
            /\ myState[b].transientrel = 0
            /\ myState[b].bistate = FALSE
            /\ queryDesc[b] = NoQueryDesc
            /\ (Has(b, "make_new_heap") /\ ~Has(b, "finish_heap_swap")) =>
                   pc[b] = "finish_heap_swap"
            /\ pc[b] = "done" =>
                   /\ Ops(b) = <<"RangeVarGetRelidExtended", "heap_open", "validate",
                                 "CheckTableNotInUse", "make_new_heap",
                                 "finish_heap_swap", "RelationCacheInvalidateEntry">>
                   /\ trace[b][Len(trace[b])].rel = TargetOid
                   /\ TargetVals = <<>>
                   /\ storage[pg_class[TargetOid].relfilenode] = EmptyFile

\* a no-data refresh has emptied a view that held rows
C15_Witness ==
    \E b \in Backends :
        /\ pc[b] = "done" /\ stmt[b].skipData
        /\ pre[b].vals # <<>>
        /\ TargetVals = <<>>

\* C16: the swap is requested at most once, after the validation, the
\* active-use check and make_new_heap, and in a data refresh after the sink
\* was closed, its flush included, and the snapshot popped; a refresh that is
\* done has swapped exactly once and has, as its last call and right after
\* the swap, invalidated the view's cache entry exactly once.
C16_StepOrder ==
    \A b \in Backends :
        /\ Count(b, "finish_heap_swap") <= 1
        /\ Has(b, "finish_heap_swap") =>
               /\ Has(b, "validate")
               /\ Has(b, "CheckTableNotInUse")
               /\ Has(b, "make_new_heap")
               /\ ~stmt[b].skipData =>
                      /\ Has(b, "transientrel_shutdown")
                      /\ Has(b, "PopActiveSnapshot")
                      /\ HEAP_INSERT_SKIP_WAL \in myState[b].hi_options =>
                             Has(b, "heap_sync")
        /\ Before(b, "validate", "CheckTableNotInUse")
        /\ Before(b, "CheckTableNotInUse", "make_new_heap")
        /\ Before(b, "make_new_heap", "QueryRewrite")
        /\ Before(b, "make_new_heap", "transientrel_startup")
        /\ Before(b, "make_new_heap", "finish_heap_swap")
        /\ Before(b, "transientrel_receive", "finish_heap_swap")
        /\ Before(b, "transientrel_shutdown", "finish_heap_swap")
        /\ Before(b, "PopActiveSnapshot", "finish_heap_swap")
        /\ \A i \in 1..Len(trace[b]) :
               trace[b][i] = Ev("RelationCacheInvalidateEntry", TargetOid) =>
                   (i = Len(trace[b]) /\ i > 1 /\ trace[b][i - 1].op = "finish_heap_swap")
        /\ pc[b] = "done" =>
               /\ Count(b, "finish_heap_swap") = 1
               /\ trace[b][Len(trace[b])] = Ev("RelationCacheInvalidateEntry", TargetOid)

\* a data refresh that flushed at close has swapped and invalidated
C16_Witness ==
    \E b \in Backends :
        /\ pc[b] = "done" /\ ~stmt[b].skipData
        /\ Has(b, "transientrel_receive")
        /\ Has(b, "heap_sync")

\* C17: a rewrite of the defining query that yields a number of queries
\* other than one ends the data fill with the internal fault
\* elog_unexpected_rewrite at once: nothing is planned or executed, no
\* snapshot is pushed, the sink is not opened, nothing is swapped, and the
\* view's stored rule and its contents are as they were.
C17_RewriteCountFault ==
    \A b \in Backends :
        \A i \in 1..Len(trace[b]) :
            (trace[b][i].op = "list_length" /\ trace[b][i].rel # 1) =>
                /\ i = Len(trace[b])
                /\ trace[b][i - 1] = Ev("QueryRewrite", TargetOid)
                /\ pc[b] = "error"
                /\ err[b] = "elog_unexpected_rewrite"
                /\ err[b] \in InternalFaults
                /\ \A op \in {"CHECK_FOR_INTERRUPTS", "pg_plan_query",
                              "PushCopiedSnapshot", "ExecutorStart",
                              "transientrel_startup", "transientrel_receive",
                              "transientrel_shutdown", "finish_heap_swap"} :
                       ~Has(b, op)
                /\ myState[b].transientrel = 0
                /\ queryDesc[b] = NoQueryDesc
                /\ Len(ActiveSnapshot[b]) <= 1
                /\ pg_class[TargetOid].rd_rules = <<SelectInsteadRule>>
                /\ TargetSnapshot = pre[b]

\* the rewriter returned more than one query for a view that has rows
C17_Witness ==
    \E b \in Backends :
        /\ pc[b] = "error" /\ err[b] = "elog_unexpected_rewrite"
        /\ trace[b][Len(trace[b])] = Ev("list_length", 2)
        /\ pre[b].vals # <<>>

\* C18: on a relation that is not a materialized view the refresh has failed,
\* as soon as validation is over, with the user error not_matview and never
\* with an internal fault, whatever rules the relation has; it has done
\* nothing but lock, open and validate, and no transient heap exists.
C18_NotMatviewFault ==
    \A b \in Backends :
        (/\ Has(b, "validate")
         /\ pg_class[TargetOid].relkind # RELKIND_MATVIEW) =>
            /\ pc[b] = "error"
            /\ err[b] = "not_matview"
            /\ err[b] \notin InternalFaults
            /\ ~Has(b, "make_new_heap")
            /\ OIDNewHeap[b] = 0
            /\ DOMAIN pg_class = {TargetOid}
            /\ DOMAIN storage = {pg_class[TargetOid].relfilenode}

\* a table whose rule metadata would be an internal fault on a view
C18_Witness ==
    \E b \in Backends :
        /\ pc[b] = "error" /\ err[b] = "not_matview"
        /\ BadRuleShape(pg_class[TargetOid])

\* the calls of a refresh that write or flush a file
WriteOps ==
    {"log_newpage", "smgrextend", "smgrimmedsync", "transientrel_startup",
     "transientrel_receive", "transientrel_shutdown", "heap_sync"}

\* C19: as long as a refresh has not swapped, every write and flush it issued
\* (the first page and its sync in SetMatViewToPopulated, every row insert,
\* the close-time flush) names the transient heap, which is not the view, the
\* view's rows and populated flag are those of the start of the refresh, and
\* no step taken before the swap changes the view's file.
C19_WritesOnlyTransient ==
    /\ [](\A b \in Backends :
             (pre[b].set /\ ~Has(b, "finish_heap_swap")) =>
                 /\ \A i \in 1..Len(trace[b]) :
                        trace[b][i].op \in WriteOps =>
                            /\ trace[b][i].rel = OIDNewHeap[b]
                            /\ trace[b][i].rel # TargetOid
                            /\ pg_class[OIDNewHeap[b]].relfilenode
                                   # pg_class[TargetOid].relfilenode
                 /\ myState[b].transientoid \in {0, OIDNewHeap[b]}
                 /\ myState[b].transientrel \in {0, OIDNewHeap[b]}
                 /\ TargetVals = pre[b].vals
                 /\ RelIsPopulated(TargetOid) = pre[b].populated)
    /\ [][\A b \in Backends :
             (pre[b].set /\ ~Has(b, "finish_heap_swap")
                 /\ trace'[b] # <<>> /\ trace'[b][Len(trace'[b])].op # "finish_heap_swap") =>
                 /\ pg_class'[TargetOid] = pg_class[TargetOid]
                 /\ storage'[pg_class[TargetOid].relfilenode]
                        = storage[pg_class[TargetOid].relfilenode]]_vars

\* rows were inserted and flushed, the swap is still to come, and the view
\* had rows of its own
C19_Witness ==
    \E b \in Backends :
        /\ pc[b] = "PopActiveSnapshot"
        /\ Has(b, "transientrel_receive")
        /\ Has(b, "heap_sync")
        /\ Has(b, "smgrextend")
        /\ pre[b].vals # <<>>
        /\ Vals(storage[pg_class[OIDNewHeap[b]].relfilenode].tuples) # pre[b].vals

\* the sink of b was closed and the refresh went on
SinkClosed(b) ==
    /\ Has(b, "transientrel_shutdown")
    /\ pc[b] # "error"
    /\ ~Has(b, "finish_heap_swap")

\* what C20 says of the stored options and command id, common to both
\* readings of its last clause
SinkOptions(b) ==
    Has(b, "transientrel_startup") =>
        LET file == storage[pg_class[OIDNewHeap[b]].relfilenode]
        IN  /\ {HEAP_INSERT_SKIP_FSM, HEAP_INSERT_FROZEN}
                   \subseteq myState[b].hi_options
            /\ myState[b].output_cid = curcid[b] \/ Has(b, "finish_heap_swap")
            /\ ~Has(b, "finish_heap_swap") =>
                   \A i \in 1..Len(file.tuples) :
                       /\ file.tuples[i].cmin = myState[b].output_cid
                       /\ file.tuples[i].frozen
                       /\ HEAP_INSERT_SKIP_WAL \in myState[b].hi_options
                              => ~file.tuples[i].wal
            /\ Count(b, "heap_sync") <= 1
            /\ Has(b, "heap_sync") =>
                   HEAP_INSERT_SKIP_WAL \in myState[b].hi_options
            /\ SinkClosed(b) =>
                   /\ Has(b, "heap_sync")
                          = (HEAP_INSERT_SKIP_WAL \in myState[b].hi_options)
                   /\ ~file.unsynced

\* the open stores InsertOptions(XLogIsNeeded) and the command id of the
\* open, and no later step of the refresh changes them
SinkOptionsFixed(b) ==
    /\ (pc[b] = "transientrel_startup" /\ pc'[b] = "transientrel_receive") =>
           /\ myState'[b].hi_options = InsertOptions(XLogIsNeeded)
           /\ myState'[b].output_cid = curcid[b]
    /\ (Has(b, "transientrel_startup") /\ pc'[b] # "idle") =>
           /\ myState'[b].hi_options = myState[b].hi_options
           /\ myState'[b].output_cid = myState[b].output_cid

\* C20 as stated: the options and the command id are fixed at the open
\* (HEAP_INSERT_SKIP_FSM and HEAP_INSERT_FROZEN always, HEAP_INSERT_SKIP_WAL
\* exactly when XLogIsNeeded is false at the open), every row carries that
\* command id, the close decides on heap_sync by the stored options, and so
\* no row that was inserted without logging is left without the close-time
\* flush. It does not hold: the rows of an unlogged view are never logged,
\* and are not flushed at close when the stored options do not skip WAL.
C20_UnloggedRowsFlushed ==
    /\ [](\A b \in Backends :
             /\ SinkOptions(b)
             /\ (Has(b, "transientrel_startup") /\ SinkClosed(b)) =>
                    LET file == storage[pg_class[OIDNewHeap[b]].relfilenode]
                    IN  (\E i \in 1..Len(file.tuples) : ~file.tuples[i].wal)
                            => Has(b, "heap_sync"))
    /\ [][\A b \in Backends : SinkOptionsFixed(b)]_vars

\* C20 amended: as above, but the last clause speaks of the rows whose
\* logging the sink skipped: every row inserted under a stored
\* HEAP_INSERT_SKIP_WAL is flushed by the close, whatever XLogIsNeeded answers
\* by then; a row is logged exactly when the stored options do not skip WAL
\* and the transient heap needs WAL, so the rows of an unlogged view go in
\* unlogged under either mode and are flushed only under the skipping one.
C20_OptionsFixedAtOpen ==
    /\ [](\A b \in Backends :
             /\ SinkOptions(b)
             /\ (Has(b, "transientrel_startup") /\ ~Has(b, "finish_heap_swap")) =>
                    LET file == storage[pg_class[OIDNewHeap[b]].relfilenode]
                        skip == HEAP_INSERT_SKIP_WAL \in myState[b].hi_options
                    IN  /\ \A i \in 1..Len(file.tuples) :
                               file.tuples[i].wal = (~skip /\ TransientNeedsWAL)
                        /\ (SinkClosed(b) /\ skip /\ file.tuples # <<>>) =>
                               (Has(b, "heap_sync") /\ ~file.unsynced)
                        /\ (SinkClosed(b) /\ ~skip /\ ~TransientNeedsWAL
                                /\ file.tuples # <<>>) =>
                               ~Has(b, "heap_sync"))
    /\ [][\A b \in Backends : SinkOptionsFixed(b)]_vars

\* rows went in without logging, XLogIsNeeded answers true by the time the
\* sink is closed, and the close has flushed them
C20_Witness ==
    \E b \in Backends :
        /\ SinkClosed(b)
        /\ XLogIsNeeded
        /\ HEAP_INSERT_SKIP_WAL \in myState[b].hi_options
        /\ Len(storage[pg_class[OIDNewHeap[b]].relfilenode].tuples) = MaxRows
        /\ Has(b, "heap_sync")

====
